---------------------------- MODULE Spec2Model ----------------------------
(***************************************************************************)
(* Model of examples/forecasting/load_forecasting.py: the sliding-window   *)
(* dataset builder (create_dataset), the dataset/dataloader pair, and the  *)
(* train/evaluate loop with its validation accumulators.                   *)
(*                                                                         *)
(* Tensors are modelled by nested sequences: a sample returned by          *)
(* UCIElectricityDataset.__getitem__ has shape (L, 1), a batch has shape   *)
(* (b, L, 1).  Values are integers (exact arithmetic).  The network is     *)
(* opaque in the source (an LSTM followed by a linear layer); here it is   *)
(* a shape-preserving causal map with one trainable parameter w, and the   *)
(* optimizer moves w one unit against the sign of the gradient.            *)
(***************************************************************************)
EXTENDS Integers, Sequences, FiniteSets, TLC

\* ----------------------------------------------------------------- bounds
MaxN == 17
MaxLookback == 2
MaxBatch == 3
MaxEpochs == 2
MaxEvalPeriod == 2
MaxShape == 2

\* train_size = int(len(df) * 0.67)
TrainPercent == 67

VARIABLES
    df_client,      \* the client's series (line 63)
    LOOKBACK,       \* window length (line 92)
    BATCH_SIZE,     \* line 128
    N_EPOCHS,       \* line 192
    EVAL_PERIOD,    \* line 193
    df_train, df_test,
    X_train, y_train, X_test, y_test,
    pc,             \* position in the script
    err,            \* the exception that ended the run, or "none"
    mode,           \* model.training: "Training" / "Evaluating"
    epoch,          \* loop variable of line 195
    train_pos,      \* batches already yielded by the current train iterator
    val_pos,        \* batches already yielded by the current test iterator
    X_batch, y_batch, y_pred, loss,
    grad,           \* .grad of the parameter (0 stands for None)
    w,              \* the Model State
    sum_error, sum_len, last_preds, mae_val,
    \* history variables (not in the source)
    train_log,      \* index batches yielded in the current training pass
    val_log,        \* index batches yielded in the current validation pass
    ops,            \* operations performed on the current training batch
    steps,          \* optimizer steps taken so far
    train_passes,   \* completed training passes
    val_started,    \* validation passes entered
    maes,           \* every MAE reported so far
    w_train_end,    \* w when the latest training pass ended
    w_prev_step     \* w before the latest optimizer step

cfg == <<df_client, LOOKBACK, BATCH_SIZE, N_EPOCHS, EVAL_PERIOD>>
data == <<df_train, df_test, X_train, y_train, X_test, y_test>>
batchv == <<X_batch, y_batch, y_pred, loss>>
accv == <<sum_error, sum_len, last_preds, mae_val>>
histv == <<train_log, val_log, ops, steps, train_passes, val_started, maes,
           w_train_end, w_prev_step>>
vars == <<cfg, data, pc, err, mode, epoch, train_pos, val_pos, batchv, grad, w,
          accv, histv>>

\* ---------------------------------------------------------------- helpers
Min(a, b) == IF a < b THEN a ELSE b
Abs(x) == IF x < 0 THEN -x ELSE x
Sgn(x) == IF x > 0 THEN 1 ELSE IF x < 0 THEN -1 ELSE 0
Ceil(a, b) == (a + b - 1) \div b

RECURSIVE SumSeq(_)
SumSeq(s) == IF s = <<>> THEN 0 ELSE s[1] + SumSeq(Tail(s))

RECURSIVE Flatten(_)
Flatten(ss) == IF ss = <<>> THEN <<>> ELSE ss[1] \o Flatten(Tail(ss))

\* The series the runs are checked on, by shape: a ramp (all values
\* distinct), a constant series, and a series with uneven increments.
SeriesValue(shape, i) ==
    CASE shape = 0 -> i
      [] shape = 1 -> 3
      [] OTHER -> (i * i * shape) % 5

Series(shape, n) == [i \in 1..n |-> SeriesValue(shape, i - 1)]

\* Python slice s[a:b] for 0 <= a, 0 <= b (bounds are clamped to len(s)).
Slice(s, a, b) ==
    LET start == Min(a, Len(s))
        stop == Min(b, Len(s))
    IN IF stop <= start THEN <<>> ELSE SubSeq(s, start + 1, stop)

\* ------------------------------------------------- create_dataset (76-90)
RECURSIVE create_dataset_loop(_, _, _, _, _, _)
create_dataset_loop(df, lookback, i, n, X, y) ==
    IF i >= n THEN <<X, y>>
    ELSE LET feature == Slice(df, i, i + lookback)
             target == Slice(df, i + 1, i + lookback + 1)
         IN create_dataset_loop(df, lookback, i + 1, n,
                                Append(X, feature), Append(y, target))

\* variant: target = df[i+1:i+lookback]
create_dataset_short_target(df, lookback) ==
    LET r == create_dataset_loop(df, lookback, 0, Len(df) - lookback, <<>>, <<>>)
    IN <<r[1], [i \in DOMAIN r[2] |-> Slice(df, i, i - 1 + lookback)]>>

create_dataset(df, lookback) ==
    create_dataset_loop(df, lookback, 0, Len(df) - lookback, <<>>, <<>>)

\* ------------------------------------- UCIElectricityDataset (102-122)
\* tensor.unsqueeze(1): shape (L,) -> (L, 1)
Unsqueeze1(v) == [k \in 1..Len(v) |-> <<v[k]>>]

\* __len__
DatasetLen(features) == Len(features)

\* __getitem__ (transform and target_transform are None); idx is 0-based
GetItem(features, target, idx) ==
    <<Unsqueeze1(features[idx + 1]), Unsqueeze1(target[idx + 1])>>

\* ------------------------------------------------ DataLoader (130-131)
\* The index batches of DataLoader(dataset, batch_size, shuffle=False):
\* a sequential sampler walked by a batch sampler.
RECURSIVE BatchSamplerIter(_, _, _, _, _, _)
BatchSamplerIter(idx, n, batch_size, batch, out, drop_last) ==
    IF idx >= n
    THEN IF Len(batch) > 0 /\ ~drop_last THEN Append(out, batch) ELSE out
    ELSE LET b == Append(batch, idx)
         IN IF Len(b) = batch_size
            THEN BatchSamplerIter(idx + 1, n, batch_size, <<>>, Append(out, b), drop_last)
            ELSE BatchSamplerIter(idx + 1, n, batch_size, b, out, drop_last)

\* variant: drop_last=True
BatchSamplerDropLast(n, batch_size) ==
    BatchSamplerIter(0, n, batch_size, <<>>, <<>>, TRUE)

BatchSampler(n, batch_size) ==
    BatchSamplerIter(0, n, batch_size, <<>>, <<>>, FALSE)

\* default collate: stack the samples of one index batch into (X, y)
Collate(features, target, idxs) ==
    <<[j \in 1..Len(idxs) |-> GetItem(features, target, idxs[j])[1]],
      [j \in 1..Len(idxs) |-> GetItem(features, target, idxs[j])[2]]>>

train_dataloader == BatchSampler(DatasetLen(X_train), BATCH_SIZE)
test_dataloader == BatchSampler(DatasetLen(X_test), BATCH_SIZE)

\* ------------------------------------------------- LSTMModel (150-162)
\* forward: (b, T, 1) -> (b, T, 1)
Forward(param, x) ==
    [s \in 1..Len(x) |-> [k \in 1..Len(x[s]) |-> <<x[s][k][1] + param>>]]

\* element count of a (b, T, 1) tensor
\* variant: len(error_abs) in place of error_abs.size
SizeFirstDim(t) == Len(t)

Size(t) == SumSeq([s \in 1..Len(t) |-> Len(t[s])])

\* sum over all elements of f(a, b) for two tensors of the same shape
SqErr(a, b) == (a - b) * (a - b)
AbsErr(a, b) == Abs(a - b)
Diff(a, b) == a - b

SumSq(p, t) ==
    SumSeq([s \in 1..Len(p) |->
              SumSeq([k \in 1..Len(p[s]) |-> SqErr(p[s][k][1], t[s][k][1])])])
SumAbs(p, t) ==
    SumSeq([s \in 1..Len(p) |->
              SumSeq([k \in 1..Len(p[s]) |-> AbsErr(t[s][k][1], p[s][k][1])])])
SumDiff(p, t) ==
    SumSeq([s \in 1..Len(p) |->
              SumSeq([k \in 1..Len(p[s]) |-> Diff(p[s][k][1], t[s][k][1])])])

\* nn.MSELoss: the mean as the pair <<sum of squares, element count>>
MSELoss(p, t) == <<SumSq(p, t), Size(p)>>

\* d loss / d w, scaled by the (positive) element count
GradMSE(p, t) == 2 * SumDiff(p, t)

\* y_pred_val[:, -1, :]: shape (b, 1)
LastStep(p) == [s \in 1..Len(p) |-> p[s][Len(p[s])]]

\* numpy squeeze of a (b, 1) array: shape (b,) for b > 1, 0-d for b = 1
Squeeze(t) ==
    IF Len(t) = 1
    THEN [ndim |-> 0, val |-> <<t[1][1]>>]
    ELSE [ndim |-> 1, val |-> [s \in 1..Len(t) |-> t[s][1]]]


\* ------------------------------------------------------------ the script
Init ==
    /\ \E shape \in 0..MaxShape, n \in 1..MaxN : df_client = Series(shape, n)
    /\ LOOKBACK \in 1..MaxLookback
    /\ BATCH_SIZE \in 1..MaxBatch
    /\ N_EPOCHS \in 0..MaxEpochs
    /\ EVAL_PERIOD \in 1..MaxEvalPeriod
    /\ df_train = <<>> /\ df_test = <<>>
    /\ X_train = <<>> /\ y_train = <<>> /\ X_test = <<>> /\ y_test = <<>>
    /\ pc = "split"
    /\ err = "none"
    /\ mode = "Training"
    /\ epoch = 0
    /\ train_pos = 0 /\ val_pos = 0
    /\ X_batch = <<>> /\ y_batch = <<>> /\ y_pred = <<>> /\ loss = <<>>
    /\ grad = 0
    /\ w = 0
    /\ sum_error = 0 /\ sum_len = 0 /\ last_preds = <<>> /\ mae_val = <<>>
    /\ train_log = <<>> /\ val_log = <<>> /\ ops = <<>>
    /\ steps = 0 /\ train_passes = 0 /\ val_started = 0 /\ maes = <<>>
    /\ w_train_end = 0 /\ w_prev_step = 0

\* lines 70-73
TrainTestSplit ==
    /\ pc = "split"
    /\ LET train_size == (Len(df_client) * TrainPercent) \div 100
       IN /\ df_train' = Slice(df_client, 0, train_size)
          /\ df_test' = Slice(df_client, train_size, Len(df_client))
    /\ pc' = "window"
    /\ UNCHANGED <<cfg, X_train, y_train, X_test, y_test, err, mode, epoch,
                   train_pos, val_pos, batchv, grad, w, accv, histv>>

\* lines 93-94 and 125-131
CreateDatasets ==
    /\ pc = "window"
    /\ X_train' = create_dataset(df_train, LOOKBACK)[1]
    /\ y_train' = create_dataset(df_train, LOOKBACK)[2]
    /\ X_test' = create_dataset(df_test, LOOKBACK)[1]
    /\ y_test' = create_dataset(df_test, LOOKBACK)[2]
    /\ pc' = "display"
    /\ UNCHANGED <<cfg, df_train, df_test, err, mode, epoch, train_pos, val_pos,
                   batchv, grad, w, accv, histv>>

\* variant: the shapes are displayed without drawing a batch
DisplayShapesNoPeek ==
    /\ pc = "display"
    /\ pc' = "epoch"
    /\ UNCHANGED <<cfg, data, err, mode, epoch, train_pos, val_pos, batchv,
                   grad, w, accv, histv>>

\* lines 136-142: next(iter(loader)) on each loader; an exhausted iterator
\* raises StopIteration
DisplayShapes ==
    /\ pc = "display"
    /\ IF Len(train_dataloader) = 0 \/ Len(test_dataloader) = 0
       THEN pc' = "aborted" /\ err' = "StopIteration"
       ELSE pc' = "epoch" /\ err' = err
    /\ UNCHANGED <<cfg, data, mode, epoch, train_pos, val_pos, batchv, grad, w,
                   accv, histv>>

\* lines 195-198: next epoch of range(N_EPOCHS), model.train(), new iterator
EpochStart ==
    /\ pc = "epoch"
    /\ IF epoch < N_EPOCHS
       THEN /\ mode' = "Training"
            /\ train_pos' = 0
            /\ train_log' = <<>>
            /\ pc' = "fetch"
       ELSE /\ pc' = "plot"
            /\ UNCHANGED <<mode, train_pos, train_log>>
    /\ UNCHANGED <<cfg, data, err, epoch, val_pos, batchv, grad, w, accv,
                   val_log, ops, steps, train_passes, val_started, maes,
                   w_train_end, w_prev_step>>

\* lines 199-204: the next training batch, or the end of the training pass
FetchTrainBatch ==
    /\ pc = "fetch"
    /\ IF train_pos < Len(train_dataloader)
       THEN LET idxs == train_dataloader[train_pos + 1]
                batch == Collate(X_train, y_train, idxs)
            IN /\ X_batch' = batch[1]
               /\ y_batch' = batch[2]
               /\ train_pos' = train_pos + 1
               /\ train_log' = Append(train_log, idxs)
               /\ ops' = <<>>
               /\ pc' = "predict"
               /\ UNCHANGED <<train_passes, w_train_end>>
       ELSE /\ train_passes' = train_passes + 1
            /\ w_train_end' = w
            /\ pc' = "validation"
            /\ UNCHANGED <<X_batch, y_batch, train_pos, train_log, ops>>
    /\ UNCHANGED <<cfg, data, err, mode, epoch, val_pos, y_pred, loss, grad, w,
                   accv, val_log, steps, val_started, maes, w_prev_step>>

\* line 206
Predict ==
    /\ pc = "predict"
    /\ y_pred' = Forward(w, X_batch)
    /\ ops' = Append(ops, "predict")
    /\ pc' = "loss"
    /\ UNCHANGED <<cfg, data, err, mode, epoch, train_pos, val_pos, X_batch,
                   y_batch, loss, grad, w, accv, train_log, val_log, steps,
                   train_passes, val_started, maes, w_train_end, w_prev_step>>

\* line 207
ComputeLoss ==
    /\ pc = "loss"
    /\ loss' = MSELoss(y_pred, y_batch)
    /\ ops' = Append(ops, "loss")
    /\ pc' = "zero_grad"
    /\ UNCHANGED <<cfg, data, err, mode, epoch, train_pos, val_pos, X_batch,
                   y_batch, y_pred, grad, w, accv, train_log, val_log, steps,
                   train_passes, val_started, maes, w_train_end, w_prev_step>>

\* line 208
ZeroGrad ==
    /\ pc = "zero_grad"
    /\ grad' = 0
    /\ ops' = Append(ops, "zero_grad")
    /\ pc' = "backward"
    /\ UNCHANGED <<cfg, data, err, mode, epoch, train_pos, val_pos, batchv, w,
                   accv, train_log, val_log, steps, train_passes, val_started,
                   maes, w_train_end, w_prev_step>>

\* line 209: gradients accumulate into .grad
Backward ==
    /\ pc = "backward"
    /\ grad' = grad + GradMSE(y_pred, y_batch)
    /\ ops' = Append(ops, "backward")
    /\ pc' = "step"
    /\ UNCHANGED <<cfg, data, err, mode, epoch, train_pos, val_pos, batchv, w,
                   accv, train_log, val_log, steps, train_passes, val_started,
                   maes, w_train_end, w_prev_step>>

\* lines 210-212
OptimizerStep ==
    /\ pc = "step"
    /\ w' = w - Sgn(grad)
    /\ w_prev_step' = w
    /\ steps' = steps + 1
    /\ ops' = Append(ops, "step")
    /\ pc' = "fetch"
    /\ UNCHANGED <<cfg, data, err, mode, epoch, train_pos, val_pos, batchv,
                   grad, accv, train_log, val_log, train_passes, val_started,
                   maes, w_train_end>>

\* variant: the accumulators are initialised once, not per pass
ValidationCheckNoReset ==
    /\ pc = "validation"
    /\ IF epoch % EVAL_PERIOD = EVAL_PERIOD - 1
       THEN /\ mode' = "Evaluating"
            /\ val_pos' = 0
            /\ val_log' = <<>>
            /\ val_started' = val_started + 1
            /\ pc' = "val_batch"
            /\ UNCHANGED <<epoch, sum_error, sum_len, last_preds>>
       ELSE /\ epoch' = epoch + 1
            /\ pc' = "epoch"
            /\ UNCHANGED <<mode, sum_error, sum_len, last_preds, val_pos,
                           val_log, val_started>>
    /\ UNCHANGED <<cfg, data, err, train_pos, batchv, grad, w, mae_val,
                   train_log, ops, steps, train_passes, maes, w_train_end,
                   w_prev_step>>

\* variant: epoch % EVAL_PERIOD == 0
ValidationCheckFirstOfPeriod ==
    /\ pc = "validation"
    /\ IF epoch % EVAL_PERIOD = 0
       THEN /\ mode' = "Evaluating"
            /\ sum_error' = 0
            /\ sum_len' = 0
            /\ last_preds' = <<>>
            /\ val_pos' = 0
            /\ val_log' = <<>>
            /\ val_started' = val_started + 1
            /\ pc' = "val_batch"
            /\ UNCHANGED epoch
       ELSE /\ epoch' = epoch + 1
            /\ pc' = "epoch"
            /\ UNCHANGED <<mode, sum_error, sum_len, last_preds, val_pos,
                           val_log, val_started>>
    /\ UNCHANGED <<cfg, data, err, train_pos, batchv, grad, w, mae_val,
                   train_log, ops, steps, train_passes, maes, w_train_end,
                   w_prev_step>>

\* lines 215-222: periodic validation, model.eval(), fresh accumulators
ValidationCheck ==
    /\ pc = "validation"
    /\ IF epoch % EVAL_PERIOD = EVAL_PERIOD - 1
       THEN /\ mode' = "Evaluating"
            /\ sum_error' = 0
            /\ sum_len' = 0
            /\ last_preds' = <<>>
            /\ val_pos' = 0
            /\ val_log' = <<>>
            /\ val_started' = val_started + 1
            /\ pc' = "val_batch"
            /\ UNCHANGED epoch
       ELSE /\ epoch' = epoch + 1
            /\ pc' = "epoch"
            /\ UNCHANGED <<mode, sum_error, sum_len, last_preds, val_pos,
                           val_log, val_started>>
    /\ UNCHANGED <<cfg, data, err, train_pos, batchv, grad, w, mae_val,
                   train_log, ops, steps, train_passes, maes, w_train_end,
                   w_prev_step>>

\* lines 224-235: one validation batch under torch.no_grad(), or the end of
\* the pass.  list.extend over a 0-d array raises TypeError, after the
\* accumulators of lines 233-234 were updated.
ValBatchBody(new_w) ==
    /\ pc = "val_batch"
    /\ IF val_pos < Len(test_dataloader)
       THEN LET idxs == test_dataloader[val_pos + 1]
                val_batch == Collate(X_test, y_test, idxs)
                X_val_batch == val_batch[1]
                y_val_batch == val_batch[2]
                y_pred_val == Forward(w, X_val_batch)
                preds == Squeeze(LastStep(y_pred_val))
            IN /\ val_pos' = val_pos + 1
               /\ val_log' = Append(val_log, idxs)
               /\ sum_len' = sum_len + Size(y_val_batch)
               /\ sum_error' = sum_error + SumAbs(y_pred_val, y_val_batch)
               /\ w' = new_w
               /\ IF preds.ndim = 0
                  THEN /\ err' = "TypeError"
                       /\ pc' = "aborted"
                       /\ UNCHANGED last_preds
                  ELSE /\ last_preds' = last_preds \o preds.val
                       /\ UNCHANGED <<err, pc>>
       ELSE /\ pc' = "mae"
            /\ UNCHANGED <<val_pos, val_log, sum_len, sum_error, last_preds,
                           err, w>>
    /\ UNCHANGED <<cfg, data, mode, epoch, train_pos, batchv, grad, mae_val,
                   train_log, ops, steps, train_passes, val_started, maes,
                   w_train_end, w_prev_step>>

\* variant: the parameters move during validation
ValBatchTrains == ValBatchBody(w - 1)

ValBatch == ValBatchBody(w)

\* line 237
ComputeMAE ==
    /\ pc = "mae"
    /\ IF sum_len = 0
       THEN /\ err' = "ZeroDivisionError"
            /\ pc' = "aborted"
            /\ UNCHANGED mae_val
       ELSE /\ mae_val' = <<sum_error, sum_len>>
            /\ pc' = "print"
            /\ UNCHANGED err
    /\ UNCHANGED <<cfg, data, mode, epoch, train_pos, val_pos, batchv, grad, w,
                   sum_error, sum_len, last_preds, histv>>

\* line 238, then the next iteration of line 195
PrintMAE ==
    /\ pc = "print"
    /\ maes' = Append(maes, mae_val)
    /\ epoch' = epoch + 1
    /\ pc' = "epoch"
    /\ UNCHANGED <<cfg, data, err, mode, train_pos, val_pos, batchv, grad, w,
                   accv, train_log, val_log, ops, steps, train_passes,
                   val_started, w_train_end, w_prev_step>>

\* lines 244-245: last_preds is unbound when no validation pass ever ran;
\* matplotlib rejects x and y of different lengths
Plot ==
    /\ pc = "plot"
    /\ IF val_started = 0
       THEN pc' = "aborted" /\ err' = "NameError"
       ELSE IF Len(Slice(df_test, LOOKBACK, Len(df_test))) # Len(last_preds)
            THEN pc' = "aborted" /\ err' = "ValueError"
            ELSE pc' = "done" /\ err' = err
    /\ UNCHANGED <<cfg, data, mode, epoch, train_pos, val_pos, batchv, grad, w,
                   accv, histv>>

Next ==
    \/ TrainTestSplit
    \/ CreateDatasets
    \/ DisplayShapes
    \/ EpochStart
    \/ FetchTrainBatch
    \/ Predict
    \/ ComputeLoss
    \/ ZeroGrad
    \/ Backward
    \/ OptimizerStep
    \/ ValidationCheck
    \/ ValBatch
    \/ ComputeMAE
    \/ PrintMAE
    \/ Plot

Spec == Init /\ [][Next]_vars

\* ============================================================ properties
N_train == Len(df_train)
N_test == Len(df_test)
M_train == Len(X_train)
M_val == Len(X_test)

Built == pc \notin {"split", "window"}
InValidation == pc \in {"val_batch", "mae", "print"}
InTrainingBatch == pc \in {"predict", "loss", "zero_grad", "backward", "step"}
\* the epoch loop was entered and the run is over
LoopOver == pc \in {"plot", "done"} \/ (pc = "aborted" /\ err # "StopIteration")
\* the epoch loop ran out of epochs
LoopExhausted == pc \in {"plot", "done"} \/ err \in {"NameError", "ValueError"}

\* rationals as <<numerator, denominator>>, denominators positive
RatEq(a, b) == a[1] * b[2] = b[1] * a[2]
RatAdd(a, b) == <<a[1] * b[2] + b[1] * a[2], a[2] * b[2]>>
RECURSIVE RatSum(_)
RatSum(s) == IF s = <<>> THEN <<0, 1>> ELSE RatAdd(s[1], RatSum(Tail(s)))

\* the whole validation set as one batch
AllIdx(m) == [i \in 1..m |-> i - 1]
WholeVal == Collate(X_test, y_test, AllIdx(M_val))
\* mean absolute error over the concatenation of all validation samples
ElementwiseTotal(param) == SumAbs(Forward(param, WholeVal[1]), WholeVal[2])
ElementwiseMAE(param) == <<ElementwiseTotal(param), M_val * LOOKBACK>>
\* MAE of one validation batch, and the unweighted mean of those
BatchMAE(param, idxs) ==
    LET b == Collate(X_test, y_test, idxs)
    IN <<SumAbs(Forward(param, b[1]), b[2]), Len(idxs) * LOOKBACK>>
MeanOfBatchMAEs(param) ==
    LET s == RatSum([j \in 1..Len(val_log) |-> BatchMAE(param, val_log[j])])
    IN <<s[1], s[2] * Len(val_log)>>
LastBatchShorter ==
    Len(val_log) >= 2 /\ Len(val_log[Len(val_log)]) < Len(val_log[1])
ExpectedLastPreds(param) == [i \in 1..M_val |-> X_test[i][LOOKBACK] + param]

C1_WindowsOf(S, X, y) ==
    LET N == Len(S)
        L == LOOKBACK
    IN (1 <= L /\ L < N) =>
         /\ Len(X) = N - L
         /\ Len(y) = N - L
         /\ \A i \in 0..(N - L - 1) :
              /\ Len(X[i + 1]) = L
              /\ Len(y[i + 1]) = L
              /\ \A k \in 0..(L - 1) :
                   /\ X[i + 1][k + 1] = S[i + k + 1]
                   /\ y[i + 1][k + 1] = S[i + 1 + k + 1]
\* C1: for 1 <= L < N, create_dataset(S, L) returns exactly N-L pairs in
\* index order, pair i holding history[k] = S[i+k] and target[k] = S[i+1+k]
\* for k in 0..L-1, so both windows have length exactly L.
C1_Windows ==
    Built => /\ C1_WindowsOf(df_train, X_train, y_train)
             /\ C1_WindowsOf(df_test, X_test, y_test)
C1_Witness ==
    /\ Built
    /\ LOOKBACK >= 2
    /\ M_train >= 3
    /\ M_val >= 2
    /\ y_test[M_val][LOOKBACK] = df_test[N_test]
    /\ df_test[N_test] # df_test[N_test - 1]

\* C2: when L >= N, building the window dataset signals a configuration
\* error: once create_dataset has returned for such a series the run is in
\* an error state, not carrying an empty sample set forward.
C2_ConfigError ==
    (Built /\ (LOOKBACK >= N_train \/ LOOKBACK >= N_test)) => err # "none"

C3_BatchesOf(log, M, B) ==
    /\ Len(log) = Ceil(M, B)
    /\ Flatten(log) = AllIdx(M)
    /\ \A j \in 1..Len(log) :
         Len(log[j]) = IF j <= M \div B THEN B ELSE M % B
C3_PrefixOf(log, M, B) ==
    \A j \in 1..Len(log) :
      log[j] = [i \in 1..(Min(j * B, M) - (j - 1) * B) |-> (j - 1) * B + i - 1]
\* C3: every pass over a batch source yields exactly ceil(M/B) batches whose
\* concatenation is the samples 0..M-1 in order, the first floor(M/B) of
\* size B and the remaining one (if any) of size M mod B; the same in every
\* epoch.
C3_Batching ==
    /\ pc = "validation" => C3_BatchesOf(train_log, M_train, BATCH_SIZE)
    /\ pc = "mae" => C3_BatchesOf(val_log, M_val, BATCH_SIZE)
    /\ (InTrainingBatch \/ pc = "fetch") =>
         Len(train_log) = train_pos /\ C3_PrefixOf(train_log, M_train, BATCH_SIZE)
    /\ (InValidation \/ err = "TypeError") =>
         Len(val_log) = val_pos /\ C3_PrefixOf(val_log, M_val, BATCH_SIZE)
    /\ pc = "predict" =>
         /\ Len(X_batch) = Len(train_log[train_pos])
         /\ \A j \in 1..Len(X_batch) : \A k \in 1..LOOKBACK :
              /\ X_batch[j][k] = <<X_train[train_log[train_pos][j] + 1][k]>>
              /\ y_batch[j][k] = <<y_train[train_log[train_pos][j] + 1][k]>>
C3_Witness ==
    /\ pc = "validation"
    /\ epoch >= 1
    /\ M_train > BATCH_SIZE
    /\ M_train % BATCH_SIZE # 0
    /\ Len(train_log[Len(train_log)]) = M_train % BATCH_SIZE

\* C4 (as stated): the reported validation MAE is the element-wise mean
\* over the concatenation of all validation batches, and it differs from
\* the unweighted mean of per-batch MAEs whenever the last batch is shorter.
C4_DiffersWheneverShorter ==
    pc = "print" =>
      /\ RatEq(mae_val, ElementwiseMAE(w))
      /\ LastBatchShorter => ~RatEq(mae_val, MeanOfBatchMAEs(w))
\* C4 (amended): the reported validation MAE is the element-wise mean over
\* the concatenation of all validation batches (total absolute error over
\* total element count); it differs from the unweighted mean of per-batch
\* MAEs only when the last batch is shorter than the others.
C4_ElementwiseMean ==
    pc = "print" =>
      /\ mae_val = <<ElementwiseTotal(w), M_val * LOOKBACK>>
      /\ ~RatEq(mae_val, MeanOfBatchMAEs(w)) => LastBatchShorter
C4_Witness ==
    /\ pc = "print"
    /\ LastBatchShorter
    /\ ~RatEq(mae_val, MeanOfBatchMAEs(w))

C6_RunsAllEpochs ==
    LoopOver => /\ epoch = N_EPOCHS
                /\ steps = N_EPOCHS * Ceil(M_train, BATCH_SIZE)

\* C7: after every validation pass last_preds holds exactly one value per
\* validation window, in sample order (M_val = N_test - L of them), for
\* every batch size and every size of the final batch, one sample included.
C7_OnePredictionPerSample ==
    (pc \in {"mae", "print"} \/ err = "TypeError") =>
      /\ Len(last_preds) = N_test - LOOKBACK
      /\ last_preds = ExpectedLastPreds(w)

C8_StateInv ==
    /\ (InValidation \/ err = "TypeError") => w = w_train_end
    /\ (pc \in {"fetch", "validation"} \/ InTrainingBatch) =>
         steps = epoch * Len(train_dataloader) + train_pos
                   - (IF InTrainingBatch THEN 1 ELSE 0)
    /\ pc = "step" => /\ y_pred = Forward(w, X_batch)
                      /\ grad = GradMSE(y_pred, y_batch)
C8_Step ==
    /\ w' # w => pc = "step" /\ mode = "Training"
    /\ steps' # steps =>
         /\ pc = "step"
         /\ steps' = steps + 1
         /\ ops' = <<"predict", "loss", "zero_grad", "backward", "step">>
         /\ w' = w - Sgn(GradMSE(Forward(w, X_batch), y_batch))
\* C8: the Model State changes only by the optimizer step of a training
\* batch, one step per batch, taken after predict, loss, zero_grad and
\* backward in that order (so the step uses the gradient of this batch's
\* loss at the current parameters); a validation pass leaves it unchanged.
C8_ModelState == [](C8_StateInv) /\ [][C8_Step]_vars
C8_Witness ==
    /\ pc = "print"
    /\ w # 0
    /\ w = w_train_end
    /\ w_prev_step # w
    /\ steps = (epoch + 1) * Len(train_dataloader)

\* C9: the validation accumulators are reset at the start of every pass:
\* at the end of each pass sum_len = M_val * L and last_preds has M_val
\* entries (those of this pass), however many passes ran before.
C9_FreshAccumulators ==
    /\ (pc = "val_batch" /\ val_pos = 0) =>
         sum_error = 0 /\ sum_len = 0 /\ last_preds = <<>>
    /\ pc \in {"mae", "print"} =>
         /\ sum_len = M_val * LOOKBACK
         /\ sum_error = ElementwiseTotal(w)
         /\ Len(last_preds) = M_val
         /\ last_preds = ExpectedLastPreds(w)
    /\ (pc \in {"plot", "done"} /\ val_started > 0) => Len(last_preds) = M_val
C9_Witness ==
    /\ pc = "print"
    /\ Len(maes) >= 1
    /\ sum_len = M_val * LOOKBACK
    /\ maes[1] # mae_val

\* C10: whenever the loop computes the validation MAE the accumulated
\* element count is positive; no run ends in a division by zero.  A
\* held-out series of length <= L gives zero validation samples, and such a
\* run never gets past the display of the first batch.
C10_NoZeroDivision ==
    /\ pc = "mae" => sum_len > 0
    /\ (Built /\ M_val = 0) => pc \in {"display", "aborted"}
    /\ err # "ZeroDivisionError"
    /\ pc = "print" => mae_val[2] > 0
C10_Witness ==
    /\ pc = "print"
    /\ mae_val = <<sum_error, sum_len>>
    /\ sum_len > 0
    /\ sum_error > 0
=============================================================================
